---- MODULE Spec2Model ----
(***************************************************************************)
(* A model of the grid2d crate: Coordinate (src/src/coordinate.rs), Grid   *)
(* (src/src/grid.rs), GridBuilder (src/src/builder.rs) and the earlier     *)
(* Grid with plain usize dimensions (src/src/lib.rs).                      *)
(*                                                                         *)
(* usize is scaled down to 0..MAX so that overflow of width * height and   *)
(* of y * width + x is reachable.  A client holds one value at a time (a   *)
(* Coordinate, a GridBuilder or a Grid), calls the public operations on it *)
(* and drops it; `last` records the most recent call and what it returned. *)
(***************************************************************************)
EXTENDS Integers, Sequences, FiniteSets, TLC

\* usize::MAX, scaled down.
MAX == 15
\* Largest width / height handed to a constructor or set as a builder hint.
MaxDim == 4
\* Longest item sequence handed to TryFrom or accumulated by a builder.
MaxLen == 3
\* Largest coordinate component used in a query, besides MAX itself.
MaxCoord == 5
\* Number of in-place writes between two constructions.
MaxWrites == 1

\* Cell contents a client passes in or writes.
Values == {0, 1}
\* NonZero<usize> arguments.
Dims == 1..MaxDim
\* The two ways the model's initializer closure behaves (any Fn() -> T):
\* "default" returns the same value on every call, "counter" returns the
\* number of calls made before.
Initializers == {"default", "counter"}
\* Item sequences of length 0..MaxLen.
ItemSeqs == UNION {[1..n -> Values] : n \in 0..MaxLen}
\* Coordinate components used in queries.
CoordVals == (0..MaxCoord) \cup {MAX - 1, MAX}
Coordinates == [x : CoordVals, y : CoordVals]
\* Longest text handed to the parser.
MaxText == 4
\* The characters of those texts: two digits, the three separators (a space
\* is one of them), a whitespace that is no separator, and a sign.
Chars == {"0", "1", "x", ",", " ", "\t", "-"}
\* A text (&str) is a sequence of characters.
Texts == UNION {[1..n -> Chars] : n \in 0..MaxText}

VARIABLES
    grid,        \* Option<Grid<T>>: <<>> or <<[width, items]>>
    builder,     \* Option<GridBuilder<T>>: <<>> or <<[items, width, height]>>
    coordinate,  \* Option<Coordinate>: <<>> or <<[x, y]>>
    last,        \* the most recent call: its name, arguments and result
    writes,      \* in-place writes since the held value was constructed
    pc           \* the client: "idle", "holding" a value, or "observed"

vars == <<grid, builder, coordinate, last, writes, pc>>

----------------------------------------------------------------------------
\* Option<T> as a sequence of length at most one.
None == <<>>
Some(v) == <<v>>
IsSome(o) == o # <<>>

\* The result of a call that may panic.
Panic == [panicked |-> TRUE]
Ret(v) == [panicked |-> FALSE, value |-> v]

\* usize::checked_mul / NonZero::checked_mul
checked_mul(a, b) == IF a * b > MAX THEN None ELSE Some(a * b)

\* usize::checked_add
checked_add(a, b) == IF a + b > MAX THEN None ELSE Some(a + b)

\* usize::checked_add_signed
checked_add_signed(a, d) == IF a + d < 0 \/ a + d > MAX THEN None ELSE Some(a + d)

\* usize::wrapping_mul: what an unchecked product of two usize gives.
wrapping_mul(a, b) == (a * b) % (MAX + 1)

----------------------------------------------------------------------------
\* Coordinate (src/src/coordinate.rs)

Coordinate_new(x, y) == [x |-> x, y |-> y]

NEIGHBOR_OFFSETS_with_origin ==
    << <<-1, -1>>, <<0, -1>>, <<1, -1>>,
       <<-1, 0>>,  <<0, 0>>,  <<1, 0>>,
       <<-1, 1>>,  <<0, 1>> >>

NEIGHBOR_OFFSETS ==
    << <<-1, -1>>, <<0, -1>>, <<1, -1>>,
       <<-1, 0>>,             <<1, 0>>,
       <<-1, 1>>,  <<0, 1>>,  <<1, 1>> >>

from_width_and_index_undivided(width, index) ==
    LET x == index % width IN Coordinate_new(x, index - x)

from_width_and_index(width, index) ==
    LET x == index % width IN Coordinate_new(x, (index - x) \div width)

as_index_unchecked_column(c, width) ==
    LET row == checked_mul(c.y, width)
    IN  IF IsSome(row) THEN checked_add(row[1], c.x) ELSE None

as_index_wrapping(c, width) ==
    IF c.x >= width THEN None
    ELSE Some((wrapping_mul(c.y, width) + c.x) % (MAX + 1))

as_index(c, width) ==
    IF c.x >= width THEN None
    ELSE LET row == checked_mul(c.y, width)
         IN  IF IsSome(row) THEN checked_add(row[1], c.x) ELSE None

Coordinate_add_wrapping(c, offset) ==
    Some(Coordinate_new((c.x + offset[1]) % (MAX + 1), (c.y + offset[2]) % (MAX + 1)))

\* impl Add<&(isize, isize)> for &Coordinate
Coordinate_add(c, offset) ==
    LET x == checked_add_signed(c.x, offset[1])
    IN  IF IsSome(x)
        THEN LET y == checked_add_signed(c.y, offset[2])
             IN  IF IsSome(y) THEN Some(Coordinate_new(x[1], y[1])) ELSE None
        ELSE None

\* Iterator::filter_map over a sequence: keeps the Some values, in order.
RECURSIVE filter_map(_)
filter_map(opts) ==
    IF opts = <<>> THEN <<>>
    ELSE Head(opts) \o filter_map(Tail(opts))

Coordinate_neighbors(c) ==
    filter_map([i \in 1..Len(NEIGHBOR_OFFSETS) |-> Coordinate_add(c, NEIGHBOR_OFFSETS[i])])

\* The separators, in the order from_str tries them.
SUPPORTED_SEPARATORS == <<"x", ",", " ">>

\* char::is_whitespace, on the characters of Chars.
is_whitespace(ch) == ch \in {" ", "\t"}

\* char::to_digit(10)
to_digit(ch) ==
    CASE ch = "0" -> Some(0) [] ch = "1" -> Some(1) [] ch = "2" -> Some(2)
      [] ch = "3" -> Some(3) [] ch = "4" -> Some(4) [] ch = "5" -> Some(5)
      [] ch = "6" -> Some(6) [] ch = "7" -> Some(7) [] ch = "8" -> Some(8)
      [] ch = "9" -> Some(9) [] OTHER -> None

\* str::trim: the text without its leading and trailing whitespace.
RECURSIVE trim_start(_)
trim_start(s) ==
    IF s # <<>> /\ is_whitespace(Head(s)) THEN trim_start(Tail(s)) ELSE s

RECURSIVE trim_end(_)
trim_end(s) ==
    IF s # <<>> /\ is_whitespace(s[Len(s)])
    THEN trim_end(SubSeq(s, 1, Len(s) - 1))
    ELSE s

trim(s) == trim_end(trim_start(s))

\* str::split_once(ch): the parts before and after the first ch, if any.
split_once(s, ch) ==
    IF \E i \in 1..Len(s) : s[i] = ch
    THEN LET i == CHOOSE i \in 1..Len(s) :
                      s[i] = ch /\ \A j \in 1..(i - 1) : s[j] # ch
         IN  Some(<<SubSeq(s, 1, i - 1), SubSeq(s, i + 1, Len(s))>>)
    ELSE None

\* Result<usize, ParseIntError>
ParseOk(n) == [ok |-> TRUE, value |-> n]
ParseErr(kind) == [ok |-> FALSE, kind |-> kind]

\* The digit loop of usize::from_str: each character must be a digit, and the
\* value is accumulated with checked_mul and checked_add.
RECURSIVE parse_digits(_, _)
parse_digits(s, result) ==
    IF s = <<>> THEN ParseOk(result)
    ELSE LET mul == checked_mul(result, 10)
             x == to_digit(Head(s))
         IN  IF x = None THEN ParseErr("InvalidDigit")
             ELSE IF mul = None THEN ParseErr("PosOverflow")
             ELSE LET sum == checked_add(mul[1], x[1])
                  IN  IF sum = None THEN ParseErr("PosOverflow")
                      ELSE parse_digits(Tail(s), sum[1])

\* str::parse::<usize>
parse_usize(s) ==
    IF s = <<>> THEN ParseErr("Empty")
    ELSE IF s \in {<<"+">>, <<"-">>} THEN ParseErr("InvalidDigit")
    ELSE parse_digits(IF Head(s) = "+" THEN Tail(s) ELSE s, 0)

\* Result<Coordinate, CoordinateParseError>
ParsedCoordinate(c) == [tag |-> "Ok", coordinate |-> c]
NotTwoNumbers == [tag |-> "NotTwoNumbers"]
InvalidXValue(kind) == [tag |-> "InvalidXValue", kind |-> kind]
InvalidYValue(kind) == [tag |-> "InvalidYValue", kind |-> kind]

Coordinate_try_from_y_first(xs, ys) ==
    LET y == parse_usize(ys)
    IN  IF ~y.ok THEN InvalidYValue(y.kind)
        ELSE LET x == parse_usize(xs)
             IN  IF ~x.ok THEN InvalidXValue(x.kind)
                 ELSE ParsedCoordinate(Coordinate_new(x.value, y.value))

\* impl TryFrom<(&str, &str)> for Coordinate
Coordinate_try_from(xs, ys) ==
    LET x == parse_usize(xs)
    IN  IF ~x.ok THEN InvalidXValue(x.kind)
        ELSE LET y == parse_usize(ys)
             IN  IF ~y.ok THEN InvalidYValue(y.kind)
                 ELSE ParsedCoordinate(Coordinate_new(x.value, y.value))

\* SUPPORTED_SEPARATORS.into_iter().find_map(|char| string.split_once(char))
find_map_split_once(s) ==
    LET found == {k \in 1..Len(SUPPORTED_SEPARATORS) :
                      IsSome(split_once(s, SUPPORTED_SEPARATORS[k]))}
    IN  IF found = {} THEN None
        ELSE split_once(s, SUPPORTED_SEPARATORS[
                 CHOOSE k \in found : \A m \in found : k <= m])

\* impl FromStr for Coordinate
from_str(s) ==
    LET parts == find_map_split_once(s)
    IN  IF IsSome(parts)
        THEN Coordinate_try_from(trim(parts[1][1]), trim(parts[1][2]))
        ELSE NotTwoNumbers

----------------------------------------------------------------------------
\* Grid (src/src/grid.rs)

\* NonZero::new_unchecked(n) with n = 0 is undefined behaviour.  A build with
\* debug assertions stops in the precondition check; a build without them
\* carries the zero on.  `ub` names which of the two the call does.
UbOutcomes == {"panic", "zero"}

NonZero_new_unchecked(n, ub) ==
    IF n = 0 /\ ub = "panic" THEN Panic ELSE Ret(n)

new_unchecked(width, items) == [width |-> width, items |-> items]

\* Call number k (from 0) of the initializer closure.
initializer(init, k) == IF init = "counter" THEN k ELSE 0

try_new_wrapping(width, height, init) ==
    LET size == wrapping_mul(width, height)
    IN  [grid |-> Some(new_unchecked(width, [k \in 1..size |-> initializer(init, k - 1)])),
         calls |-> size]

try_new_swapped(width, height, init) ==
    LET size == checked_mul(width, height)
    IN  IF IsSome(size)
        THEN [grid |-> Some(new_unchecked(height,
                         [k \in 1..size[1] |-> initializer(init, k - 1)])),
              calls |-> size[1]]
        ELSE [grid |-> None, calls |-> 0]

try_new_reversed(width, height, init) ==
    LET size == checked_mul(width, height)
    IN  IF IsSome(size)
        THEN [grid |-> Some(new_unchecked(width,
                         [k \in 1..size[1] |-> initializer(init, size[1] - k)])),
              calls |-> size[1]]
        ELSE [grid |-> None, calls |-> 0]

\* Grid::try_new: the grid (or None) and how often the initializer ran.
try_new(width, height, init) ==
    LET size == checked_mul(width, height)
    IN  IF IsSome(size)
        THEN [grid |-> Some(new_unchecked(width,
                         [k \in 1..size[1] |-> initializer(init, k - 1)])),
              calls |-> size[1]]
        ELSE [grid |-> None, calls |-> 0]

\* Grid::new: try_new(..).expect("grid too large")
Grid_new(width, height, init) ==
    LET r == try_new(width, height, init)
    IN  [result |-> IF IsSome(r.grid) THEN Ret(r.grid[1]) ELSE Panic,
         calls |-> r.calls]

\* Grid::new_default: new(width, height, T::default)
new_default(width, height) == Grid_new(width, height, "default")

\* impl TryFrom<(T, NonZero<usize>)> for Grid: Ok(grid) as Some, Err(()) as None.
try_from(items, width) ==
    IF Len(items) % width = 0
    THEN Some(new_unchecked(width, items))
    ELSE None

Grid_width(g) == g.width

Grid_size(g, ub) == NonZero_new_unchecked(Len(g.items), ub)

Grid_height(g, ub) ==
    LET s == Grid_size(g, ub)
    IN  IF s.panicked THEN Panic
        ELSE NonZero_new_unchecked(s.value \div g.width, ub)

is_empty(g) == Len(g.items) = 0

get_mut_any_column(g, c) ==
    LET index == as_index_unchecked_column(c, g.width)
    IN  IF IsSome(index) /\ index[1] < Len(g.items) THEN index ELSE None

\* Grid::get_mut: as_index(width).and_then(|index| items.get_mut(index)).
\* The cell the returned reference points to, as its index in the buffer.
get_mut(g, c) ==
    LET index == as_index(c, g.width)
    IN  IF IsSome(index) /\ index[1] < Len(g.items) THEN index ELSE None

\* Grid::get: as_index(width).and_then(|index| items.get(index))
get(g, c) ==
    LET index == as_index(c, g.width)
    IN  IF IsSome(index) /\ index[1] < Len(g.items)
        THEN Some(g.items[index[1] + 1])
        ELSE None

\* impl Index<I> for Grid: self.get(index).expect("index out of bounds")
Grid_index(g, c) ==
    LET cell == get(g, c)
    IN  IF IsSome(cell) THEN Ret(cell[1]) ELSE Panic

\* Grid::iter: the items in buffer order.
Grid_iter(g) == g.items

\* Grid::rows: for y in 0..height(), the items at as_index of (x, y) for x in
\* 0..width, a coordinate without an index being skipped; &self.items[index]
\* panics for an index outside the buffer.
rows(g, ub) ==
    LET h == Grid_height(g, ub)
        cell(x, y) == as_index(Coordinate_new(x, y), g.width)
    IN  IF h.panicked THEN Panic
        ELSE IF \E y \in 0..(h.value - 1), x \in 0..(g.width - 1) :
                    IsSome(cell(x, y)) /\ cell(x, y)[1] >= Len(g.items)
        THEN Panic
        ELSE Ret([y \in 1..h.value |->
                    filter_map([x \in 1..g.width |->
                        IF IsSome(cell(x - 1, y - 1))
                        THEN Some(g.items[cell(x - 1, y - 1)[1] + 1])
                        ELSE None])])

\* Grid::contains: self.items.contains(element)
contains(g, element) == \E i \in 1..Len(g.items) : g.items[i] = element

\* Grid::enumerate: (coordinate, item) pairs in buffer order.
enumerate(g) ==
    [i \in 1..Len(g.items) |-> <<from_width_and_index(g.width, i - 1), g.items[i]>>]

\* Grid::encompasses: x < width && y < height(), left to right.
encompasses(g, c, ub) ==
    IF c.x < g.width
    THEN LET h == Grid_height(g, ub)
         IN  IF h.panicked THEN Panic ELSE Ret(c.y < h.value)
    ELSE Ret(FALSE)

neighbor_coordinates_unfiltered(g, c, ub) == Ret(Coordinate_neighbors(c))

\* Grid::neighbor_coordinates: Coordinate::neighbors filtered by encompasses.
neighbor_coordinates(g, c, ub) ==
    LET ns == Coordinate_neighbors(c)
    IN  IF \E i \in 1..Len(ns) : encompasses(g, ns[i], ub).panicked
        THEN Panic
        ELSE Ret(SelectSeq(ns, LAMBDA n : encompasses(g, n, ub).value))

\* Grid::neighbors_internal: enumerate() filtered by membership in `neighbors`.
neighbors_internal(g, neighbors) ==
    SelectSeq(enumerate(g),
              LAMBDA pair : \E i \in 1..Len(neighbors) : neighbors[i] = pair[1])

\* Grid::neighbors
Grid_neighbors(g, c, ub) ==
    LET ns == neighbor_coordinates(g, c, ub)
    IN  IF ns.panicked THEN Panic ELSE Ret(neighbors_internal(g, ns.value))

\* Grid::enumerate_mut: (coordinate, cell) pairs in buffer order, the cell as
\* its index in the buffer.
enumerate_mut(g) ==
    [i \in 1..Len(g.items) |-> <<from_width_and_index(g.width, i - 1), i - 1>>]

\* Grid::neighbors_mut_internal
neighbors_mut_internal(g, neighbors) ==
    SelectSeq(enumerate_mut(g),
              LAMBDA pair : \E i \in 1..Len(neighbors) : neighbors[i] = pair[1])

\* Grid::neighbors_mut
neighbors_mut(g, c, ub) ==
    LET ns == neighbor_coordinates(g, c, ub)
    IN  IF ns.panicked THEN Panic ELSE Ret(neighbors_mut_internal(g, ns.value))

----------------------------------------------------------------------------
\* The Grid of src/src/lib.rs, whose width is a plain usize.

\* An overflowing usize product panics in a build with overflow checks and
\* wraps in a build without them.
OverflowOutcomes == {"panic", "wrap"}

Legacy_new_non_zero(width, height, init, overflow) ==
    IF width = 0 \/ height = 0 \/ height * width > MAX
    THEN [result |-> Panic, calls |-> 0]
    ELSE [result |-> Ret([width |-> width,
                          items |-> [k \in 1..(height * width) |-> initializer(init, k - 1)]]),
          calls |-> height * width]

\* Grid::new: items: (0..height * width).map(|_| initializer()).collect()
Legacy_new(width, height, init, overflow) ==
    IF height * width > MAX /\ overflow = "panic"
    THEN [result |-> Panic, calls |-> 0]
    ELSE LET size == wrapping_mul(height, width)
         IN  [result |-> Ret([width |-> width,
                               items |-> [k \in 1..size |-> initializer(init, k - 1)]]),
              calls |-> size]

\* Grid::from_vec: vec.len() % width == 0, a division by zero for width 0.
Legacy_from_vec(vec, width) ==
    IF width = 0 THEN Panic
    ELSE IF Len(vec) % width = 0
         THEN Ret([tag |-> "Ok", grid |-> [width |-> width, items |-> vec]])
         ELSE Ret([tag |-> "iterator size must be a multiple of width"])

\* Grid::from_iter: Self::from_vec(iterator.collect(), width)
Legacy_from_iter(iterator, width) == Legacy_from_vec(iterator, width)

Legacy_width(g) == g.width

\* Grid::height: items.len() / width, a division by zero for width 0.
Legacy_height(g) ==
    IF g.width = 0 THEN Panic ELSE Ret(Len(g.items) \div g.width)

\* Grid::size: width * height()
Legacy_size(g) ==
    LET h == Legacy_height(g)
    IN  IF h.panicked THEN Panic ELSE Ret(g.width * h.value)

----------------------------------------------------------------------------
\* GridBuilder (src/src/builder.rs)

GridBuilder_new(items) == [items |-> items, width |-> None, height |-> None]

GridBuilder_width_only(b, width) == [b EXCEPT !.width = Some(width), !.height = None]

GridBuilder_width(b, width) == [b EXCEPT !.width = Some(width)]

GridBuilder_height(b, height) == [b EXCEPT !.height = Some(height)]

with_item_unhinted(b, item) ==
    [items |-> Append(b.items, item), width |-> None, height |-> None]

with_item(b, item) == [b EXCEPT !.items = Append(@, item)]

extend_front(b, iter) == [b EXCEPT !.items = iter \o @]

extend(b, iter) == [b EXCEPT !.items = @ \o iter]

Ok(g) == [tag |-> "Ok", grid |-> g]
Err(variant, items) == [tag |-> variant, items |-> items]

\* BuildError::into_items
into_items(e) == e.items

build_both_wrapping(items, width, height) ==
    IF Len(items) = wrapping_mul(width, height)
    THEN Ok(new_unchecked(width, items))
    ELSE Err("SizeDoesNotMatch", items)

\* GridBuilder::build, the arm (Some(width), Some(height))
build_both(items, width, height) ==
    LET size == checked_mul(width, height)
    IN  IF IsSome(size) /\ Len(items) = size[1]
        THEN Ok(new_unchecked(width, items))
        ELSE Err("SizeDoesNotMatch", items)

build_width_any(items, width) ==
    IF Len(items) % width # 0 THEN Err("SizeNotMultipleOfWidth", items)
    ELSE Ok(new_unchecked(width, items))

\* GridBuilder::build, the arm (Some(width), None)
build_width(items, width) ==
    IF width > Len(items) THEN Err("TooWide", items)
    ELSE IF Len(items) % width # 0 THEN Err("SizeNotMultipleOfWidth", items)
    ELSE Ok(new_unchecked(width, items))

\* GridBuilder::build, the arm (None, Some(height)):
\* NonZero::new(len / height).and_then(|width| (len % width == 0).then(width))
build_height(items, height) ==
    IF height > Len(items) THEN Err("TooTall", items)
    ELSE LET quotient == Len(items) \div height
             width == IF quotient # 0 /\ Len(items) % quotient = 0
                      THEN Some(quotient) ELSE None
         IN  IF IsSome(width)
             THEN Ok(new_unchecked(width[1], items))
             ELSE Err("SizeNotMultipleOfHeight", items)

\* GridBuilder::build
build(b) ==
    IF IsSome(b.width) /\ IsSome(b.height) THEN build_both(b.items, b.width[1], b.height[1])
    ELSE IF IsSome(b.width) THEN build_width(b.items, b.width[1])
    ELSE IF IsSome(b.height) THEN build_height(b.items, b.height[1])
    ELSE Err("NeitherWidthNotHeightSet", b.items)

----------------------------------------------------------------------------
\* The client.  It constructs a value when it holds none, calls operations on
\* the value it holds, and drops it.  A call addressed by a coordinate is the
\* last one it makes on a grid: it looks at what the call returned ("observed")
\* and drops the grid.

Init ==
    /\ grid = None
    /\ builder = None
    /\ coordinate = None
    /\ last = [op |-> "init"]
    /\ writes = 0
    /\ pc = "idle"

\* The client comes to hold the grid `g` (an Option: nothing on failure).
Hold(g) ==
    /\ grid' = g
    /\ builder' = None
    /\ coordinate' = None
    /\ writes' = 0
    /\ pc' = IF IsSome(g) THEN "holding" ELSE "idle"

\* drop(value);
Drop ==
    /\ pc # "idle"
    /\ Hold(None)
    /\ last' = [op |-> "drop"]

\* let grid = Grid::try_new(width, height, initializer);
TryNew ==
    /\ pc = "idle"
    /\ \E width \in Dims, height \in Dims, init \in Initializers :
        LET r == try_new(width, height, init)
        IN  /\ Hold(r.grid)
            /\ last' = [op |-> "try_new", width |-> width, height |-> height,
                        init |-> init, some |-> IsSome(r.grid), calls |-> r.calls]

\* let grid = Grid::new(width, height, initializer);
New ==
    /\ pc = "idle"
    /\ \E width \in Dims, height \in Dims, init \in Initializers :
        LET r == Grid_new(width, height, init)
        IN  /\ Hold(IF r.result.panicked THEN None ELSE Some(r.result.value))
            /\ last' = [op |-> "new", width |-> width, height |-> height,
                        init |-> init, panicked |-> r.result.panicked,
                        calls |-> r.calls]

\* let grid = Grid::new_default(width, height);
NewDefault ==
    /\ pc = "idle"
    /\ \E width \in Dims, height \in Dims :
        LET r == new_default(width, height)
        IN  /\ Hold(IF r.result.panicked THEN None ELSE Some(r.result.value))
            /\ last' = [op |-> "new_default", width |-> width, height |-> height,
                        panicked |-> r.result.panicked, calls |-> r.calls]

\* let grid = Grid::try_from((items, width));
TryFrom ==
    /\ pc = "idle"
    /\ \E items \in ItemSeqs, width \in Dims :
        LET r == try_from(items, width)
        IN  /\ Hold(r)
            /\ last' = [op |-> "try_from", items |-> items, width |-> width,
                        ok |-> IsSome(r)]

----------------------------------------------------------------------------
\* The builder calls take the builder by value and hand it back.

Rebuilt(b) ==
    /\ builder' = Some(b)
    /\ UNCHANGED <<grid, coordinate, writes, pc>>

\* let builder = GridBuilder::new(items);
BuilderNew ==
    /\ pc = "idle"
    /\ \E items \in ItemSeqs :
        /\ builder' = Some(GridBuilder_new(items))
        /\ pc' = "holding"
        /\ last' = [op |-> "builder_new", items |-> items]
    /\ UNCHANGED <<grid, coordinate, writes>>

\* builder = builder.width(width);
BuilderWidth ==
    /\ IsSome(builder)
    /\ \E width \in Dims :
        /\ Rebuilt(GridBuilder_width(builder[1], width))
        /\ last' = [op |-> "builder_width", width |-> width]

\* builder = builder.height(height);
BuilderHeight ==
    /\ IsSome(builder)
    /\ \E height \in Dims :
        /\ Rebuilt(GridBuilder_height(builder[1], height))
        /\ last' = [op |-> "builder_height", height |-> height]

\* builder = builder.with_item(item);
WithItem ==
    /\ IsSome(builder)
    /\ Len(builder[1].items) < MaxLen
    /\ \E item \in Values :
        /\ Rebuilt(with_item(builder[1], item))
        /\ last' = [op |-> "with_item", item |-> item]

\* builder = builder.extend(iter);
Extend ==
    /\ IsSome(builder)
    /\ \E iter \in ItemSeqs :
        /\ Len(builder[1].items) + Len(iter) <= MaxLen
        /\ Rebuilt(extend(builder[1], iter))
        /\ last' = [op |-> "extend", iter |-> iter]

\* let result = builder.build();   (consumes the builder)
Build ==
    /\ IsSome(builder)
    /\ LET r == build(builder[1])
       IN  /\ Hold(IF r.tag = "Ok" THEN Some(r.grid) ELSE None)
           /\ last' = [op |-> "build", items |-> builder[1].items,
                       width |-> builder[1].width, height |-> builder[1].height,
                       result |-> r]

----------------------------------------------------------------------------
\* Read-only calls on the held grid.

Read(record) ==
    /\ last' = record
    /\ UNCHANGED <<grid, builder, coordinate, writes, pc>>

\* A read-only call addressed by a coordinate.
ReadAt(record) ==
    /\ last' = record
    /\ pc' = "observed"
    /\ UNCHANGED <<grid, builder, coordinate, writes>>

Holding == pc = "holding" /\ IsSome(grid)

Width ==
    /\ Holding
    /\ Read([op |-> "width", ret |-> Grid_width(grid[1])])

Height ==
    /\ Holding
    /\ \E ub \in UbOutcomes :
        Read([op |-> "height", ret |-> Grid_height(grid[1], ub)])

Size ==
    /\ Holding
    /\ \E ub \in UbOutcomes :
        Read([op |-> "size", ret |-> Grid_size(grid[1], ub)])

IsEmpty ==
    /\ Holding
    /\ Read([op |-> "is_empty", ret |-> is_empty(grid[1])])

\* let items: Vec<_> = grid.iter().collect();
Iter ==
    /\ Holding
    /\ Read([op |-> "iter", ret |-> Grid_iter(grid[1])])

\* let rows: Vec<Vec<_>> = grid.rows().map(Iterator::collect).collect();
GridRows ==
    /\ Holding
    /\ \E ub \in UbOutcomes :
        Read([op |-> "rows", ret |-> rows(grid[1], ub)])

\* let pairs: Vec<_> = grid.enumerate().collect();
Enumerate ==
    /\ Holding
    /\ Read([op |-> "enumerate", ret |-> enumerate(grid[1])])

\* grid.contains(&element)
Contains ==
    /\ Holding
    /\ \E element \in Values :
        Read([op |-> "contains", element |-> element,
              ret |-> contains(grid[1], element)])

Get ==
    /\ Holding
    /\ \E c \in Coordinates :
        ReadAt([op |-> "get", c |-> c, ret |-> get(grid[1], c)])

Encompasses ==
    /\ Holding
    /\ \E c \in Coordinates, ub \in UbOutcomes :
        ReadAt([op |-> "encompasses", c |-> c, ret |-> encompasses(grid[1], c, ub)])

\* let cell = grid[c];
Index ==
    /\ Holding
    /\ \E c \in Coordinates :
        ReadAt([op |-> "index", c |-> c, ret |-> Grid_index(grid[1], c)])

NeighborCoordinates ==
    /\ Holding
    /\ \E c \in Coordinates, ub \in UbOutcomes :
        ReadAt([op |-> "neighbor_coordinates", c |-> c,
                ret |-> neighbor_coordinates(grid[1], c, ub)])

Neighbors ==
    /\ Holding
    /\ \E c \in Coordinates, ub \in UbOutcomes :
        ReadAt([op |-> "neighbors", c |-> c, ret |-> Grid_neighbors(grid[1], c, ub)])

----------------------------------------------------------------------------
\* In-place writes to the held grid.

\* The grid with `value` stored at every (0-based) buffer index in `indices`.
Store(g, indices, value) ==
    [g EXCEPT !.items = [i \in 1..Len(@) |-> IF (i - 1) \in indices THEN value ELSE @[i]]]

Written(g) ==
    /\ grid' = Some(g)
    /\ writes' = writes + 1
    /\ UNCHANGED <<builder, coordinate>>

\* if let Some(cell) = grid.get_mut(c) { *cell = value; }
GetMut ==
    /\ Holding
    /\ writes < MaxWrites
    /\ \E c \in Coordinates, value \in Values :
        LET index == get_mut(grid[1], c)
        IN  /\ Written(IF IsSome(index) THEN Store(grid[1], {index[1]}, value)
                       ELSE grid[1])
            /\ pc' = "observed"
            /\ last' = [op |-> "get_mut", c |-> c, value |-> value,
                        index |-> index]

\* for (_, cell) in grid.neighbors_mut(c) { *cell = value; }
NeighborsMut ==
    /\ Holding
    /\ writes < MaxWrites
    /\ \E c \in Coordinates, value \in Values, ub \in UbOutcomes :
        LET ns == neighbors_mut(grid[1], c, ub)
        IN  /\ Written(IF ns.panicked THEN grid[1]
                       ELSE Store(grid[1], {ns.value[i][2] : i \in 1..Len(ns.value)},
                                  value))
            /\ pc' = "observed"
            /\ last' = [op |-> "neighbors_mut", c |-> c, value |-> value, ret |-> ns]

\* *grid.iter_mut().nth(index).unwrap() = value;
IterMut ==
    /\ Holding
    /\ writes < MaxWrites
    /\ \E index \in 0..(Len(grid[1].items) - 1), value \in Values :
        /\ Written(Store(grid[1], {index}, value))
        /\ last' = [op |-> "iter_mut", index |-> index, value |-> value]
    /\ UNCHANGED pc

\* let (c, cell) = grid.enumerate_mut().nth(index).unwrap(); *cell = value;
EnumerateMut ==
    /\ Holding
    /\ writes < MaxWrites
    /\ \E index \in 0..(Len(grid[1].items) - 1), value \in Values :
        /\ Written(Store(grid[1], {enumerate_mut(grid[1])[index + 1][2]}, value))
        /\ last' = [op |-> "enumerate_mut", index |-> index, value |-> value,
                    c |-> enumerate_mut(grid[1])[index + 1][1]]
    /\ UNCHANGED pc

\* grid[index] = value;   through DerefMut<Target = [T]>
DerefMut ==
    /\ Holding
    /\ writes < MaxWrites
    /\ \E index \in 0..Len(grid[1].items), value \in Values :
        LET inside == index < Len(grid[1].items)
        IN  /\ Written(IF inside THEN Store(grid[1], {index}, value) ELSE grid[1])
            /\ last' = [op |-> "deref_mut", index |-> index, value |-> value,
                        panicked |-> ~inside]
    /\ UNCHANGED pc

----------------------------------------------------------------------------
\* Calls on a Coordinate.

HoldCoordinate(c) ==
    /\ coordinate' = Some(c)
    /\ pc' = "holding"
    /\ UNCHANGED <<grid, builder, writes>>

\* let coordinate = Coordinate::new(x, y);
CoordinateNew ==
    /\ pc = "idle"
    /\ \E x \in 0..MAX, y \in 0..MAX :
        /\ HoldCoordinate(Coordinate_new(x, y))
        /\ last' = [op |-> "coordinate_new", x |-> x, y |-> y]

\* let coordinate = Coordinate::from_width_and_index(width, index);
FromWidthAndIndex ==
    /\ pc = "idle"
    /\ \E width \in 1..MAX, index \in 0..MAX :
        /\ HoldCoordinate(from_width_and_index(width, index))
        /\ last' = [op |-> "from_width_and_index", width |-> width, index |-> index]

\* coordinate.as_index(width)
AsIndex ==
    /\ pc = "holding"
    /\ IsSome(coordinate)
    /\ \E width \in 1..MAX :
        /\ last' = [op |-> "as_index", width |-> width,
                    ret |-> as_index(coordinate[1], width)]
        /\ pc' = "observed"
    /\ UNCHANGED <<grid, builder, coordinate, writes>>

\* let result = Coordinate::from_str(text);   The client holds the Coordinate
\* of an Ok, or looks at the error and drops it.
FromStr ==
    /\ pc = "idle"
    /\ \E text \in Texts :
        LET r == from_str(text)
        IN  /\ coordinate' = IF r.tag = "Ok" THEN Some(r.coordinate) ELSE None
            /\ pc' = IF r.tag = "Ok" THEN "holding" ELSE "observed"
            /\ last' = [op |-> "from_str", text |-> text, result |-> r]
    /\ UNCHANGED <<grid, builder, writes>>

\* let neighbors: Vec<_> = coordinate.neighbors().collect();
CoordinateNeighbors ==
    /\ pc = "holding"
    /\ IsSome(coordinate)
    /\ last' = [op |-> "coordinate_neighbors",
                ret |-> Coordinate_neighbors(coordinate[1])]
    /\ pc' = "observed"
    /\ UNCHANGED <<grid, builder, coordinate, writes>>

----------------------------------------------------------------------------
\* Calls on the Grid of src/src/lib.rs; the client holds it in `grid`.

\* let grid = Grid::new(width, height, initializer);
LegacyNew ==
    /\ pc = "idle"
    /\ \E width \in 0..MaxDim, height \in 0..MaxDim, init \in Initializers,
          overflow \in OverflowOutcomes :
        LET r == Legacy_new(width, height, init, overflow)
        IN  /\ Hold(IF r.result.panicked THEN None ELSE Some(r.result.value))
            /\ last' = [op |-> "legacy_new", width |-> width, height |-> height,
                        init |-> init, panicked |-> r.result.panicked,
                        calls |-> r.calls]

\* let result = Grid::from_vec(vec, width);
LegacyFromVec ==
    /\ pc = "idle"
    /\ \E vec \in ItemSeqs, width \in 0..MaxDim :
        LET r == Legacy_from_vec(vec, width)
        IN  /\ Hold(IF ~r.panicked /\ r.value.tag = "Ok"
                    THEN Some(r.value.grid) ELSE None)
            /\ last' = [op |-> "legacy_from_vec", vec |-> vec, width |-> width,
                        ret |-> r]

\* let result = Grid::from_iter(iterator, width);
LegacyFromIter ==
    /\ pc = "idle"
    /\ \E iterator \in ItemSeqs, width \in 0..MaxDim :
        LET r == Legacy_from_iter(iterator, width)
        IN  /\ Hold(IF ~r.panicked /\ r.value.tag = "Ok"
                    THEN Some(r.value.grid) ELSE None)
            /\ last' = [op |-> "legacy_from_iter", vec |-> iterator, width |-> width,
                        ret |-> r]

LegacyWidth ==
    /\ Holding
    /\ Read([op |-> "legacy_width", ret |-> Legacy_width(grid[1])])

LegacyHeight ==
    /\ Holding
    /\ Read([op |-> "legacy_height", ret |-> Legacy_height(grid[1])])

LegacySize ==
    /\ Holding
    /\ Read([op |-> "legacy_size", ret |-> Legacy_size(grid[1])])

----------------------------------------------------------------------------
\* The life of a Grid: every way to construct one, every way to write to it
\* in place, and its dimensions.
Next ==
    \/ Drop
    \/ TryNew \/ New \/ NewDefault \/ TryFrom
    \/ BuilderNew \/ BuilderWidth \/ BuilderHeight \/ WithItem \/ Extend \/ Build
    \/ Width \/ Height \/ Size \/ IsEmpty
    \/ GetMut \/ NeighborsMut \/ IterMut \/ EnumerateMut \/ DerefMut

Spec == Init /\ [][Next]_vars

\* Construction of a Grid and its dimensions.
NextConstruct ==
    \/ Drop
    \/ TryNew \/ New \/ NewDefault \/ TryFrom
    \/ Width \/ Height \/ Size \/ IsEmpty

SpecConstruct == Init /\ [][NextConstruct]_vars

\* The builder, and the dimensions of what it builds.
NextBuilder ==
    \/ Drop
    \/ BuilderNew \/ BuilderWidth \/ BuilderHeight \/ WithItem \/ Extend \/ Build
    \/ Width \/ Height \/ Size \/ IsEmpty

SpecBuilder == Init /\ [][NextBuilder]_vars

\* Access to one cell.
NextAccess ==
    \/ Drop
    \/ TryNew \/ TryFrom
    \/ Get \/ GetMut \/ Encompasses

SpecAccess == Init /\ [][NextAccess]_vars

\* Neighbor queries.
NextNeighbors ==
    \/ Drop
    \/ TryNew \/ TryFrom
    \/ NeighborCoordinates \/ Neighbors \/ NeighborsMut

SpecNeighbors == Init /\ [][NextNeighbors]_vars

\* Iteration over the cells.
NextIterate ==
    \/ Drop
    \/ TryNew \/ TryFrom
    \/ Iter \/ GridRows \/ Enumerate \/ IterMut \/ EnumerateMut

SpecIterate == Init /\ [][NextIterate]_vars

\* One write through get_mut among the read-only calls.
NextFrame ==
    \/ Drop
    \/ TryNew \/ TryFrom
    \/ GetMut
    \/ Get \/ Iter \/ Enumerate \/ GridRows \/ Neighbors \/ Encompasses \/ Contains

SpecFrame == Init /\ [][NextFrame]_vars

\* Every call addressed by a coordinate.
NextQueries ==
    \/ Drop
    \/ TryNew \/ TryFrom
    \/ Get \/ GetMut \/ Index \/ Encompasses
    \/ NeighborCoordinates \/ Neighbors \/ NeighborsMut

SpecQueries == Init /\ [][NextQueries]_vars

\* Coordinate arithmetic.
NextCoordinate ==
    \/ Drop
    \/ CoordinateNew \/ FromWidthAndIndex \/ AsIndex \/ CoordinateNeighbors

SpecCoordinate == Init /\ [][NextCoordinate]_vars

\* The Grid of src/src/lib.rs.
NextLegacy ==
    \/ Drop
    \/ LegacyNew \/ LegacyFromVec \/ LegacyFromIter
    \/ LegacyWidth \/ LegacyHeight \/ LegacySize

SpecLegacy == Init /\ [][NextLegacy]_vars

\* Parsing a Coordinate from text.
NextParse ==
    \/ Drop
    \/ FromStr

SpecParse == Init /\ [][NextParse]_vars

----------------------------------------------------------------------------
\* Properties.

\* The height of a grid as arithmetic on its fields: items.len() / width.
Rows(g) == Len(g.items) \div g.width

\* C1: every grid the client can hold has width >= 1, a buffer whose length is
\* a non-zero multiple of width, height() = length / width >= 1, and
\* size() = width() * height() = length >= 1, so that is_empty() is false.
C1_GridInvariant ==
    IsSome(grid) =>
        LET g == grid[1] IN
        /\ Grid_width(g) >= 1
        /\ Len(g.items) >= 1
        /\ Len(g.items) % Grid_width(g) = 0
        /\ ~is_empty(g)
        /\ \A ub \in UbOutcomes :
            /\ Grid_height(g, ub) = Ret(Rows(g))
            /\ Rows(g) >= 1
            /\ Grid_size(g, ub) = Ret(Len(g.items))
            /\ Grid_width(g) * Rows(g) = Len(g.items)

\* C2: Grid::try_from((items, width)) succeeds if and only if the number of
\* items is a positive multiple of width; on success the grid has that width
\* and holds the items in order, and otherwise there is no grid.
C2_TryFromIffPositiveMultiple ==
    last.op = "try_from" =>
        /\ last.ok <=> (Len(last.items) >= 1 /\ Len(last.items) % last.width = 0)
        /\ last.ok => grid = Some([width |-> last.width, items |-> last.items])
        /\ ~last.ok => grid = None

\* C3: for width, height >= 1 whose product does not overflow, Grid::new and
\* Grid::try_new return a grid with width() = width, height() = height and
\* size() = width * height.
C3_FreshDimensions ==
    (last.op \in {"new", "try_new"} /\ last.width * last.height <= MAX) =>
        /\ IsSome(grid)
        /\ Grid_width(grid[1]) = last.width
        /\ \A ub \in UbOutcomes :
            /\ Grid_height(grid[1], ub) = Ret(last.height)
            /\ Grid_size(grid[1], ub) = Ret(last.width * last.height)

C3_Witness ==
    /\ last.op = "new"
    /\ IsSome(grid)
    /\ last.width > last.height
    /\ last.height > 1

\* C4: Grid::try_new returns None exactly when width * height > MAX, Grid::new
\* panics in exactly that case, no grid is made from a wrapped product, and the
\* initializer is not called when the product overflows.
C4_OverflowGivesNoGrid ==
    /\ last.op = "try_new" =>
        /\ ~last.some <=> last.width * last.height > MAX
        /\ last.some <=> IsSome(grid)
    /\ last.op = "new" =>
        /\ last.panicked <=> last.width * last.height > MAX
        /\ ~last.panicked <=> IsSome(grid)
    /\ last.op \in {"new", "try_new"} =>
        /\ IsSome(grid) => Len(grid[1].items) = last.width * last.height
        /\ last.width * last.height > MAX => last.calls = 0

C4_Witness ==
    /\ last.op = "try_new"
    /\ last.width * last.height > MAX
    /\ ~last.some
    /\ grid = None

\* (x, y) lies on the grid: x < width and y < height.
Inside(g, c) == c.x < g.width /\ c.y < Rows(g)

\* C5: get(c) and get_mut(c) are present if and only if x < width and
\* y < height, which is exactly when encompasses(c) is true, and the cell they
\* give is the buffer element at index y * width + x.
C5_GetIffEncompassed ==
    /\ last.op = "get" =>
        LET g == grid[1]
            c == last.c
        IN  /\ IsSome(last.ret) <=> Inside(g, c)
            /\ Inside(g, c) => last.ret = Some(g.items[c.y * g.width + c.x + 1])
            /\ \A ub \in UbOutcomes :
                (encompasses(g, c, ub) = Ret(TRUE)) <=> IsSome(last.ret)
    /\ last.op = "get_mut" =>
        LET g == grid[1]
            c == last.c
        IN  /\ IsSome(last.index) <=> Inside(g, c)
            /\ Inside(g, c) =>
                /\ last.index = Some(c.y * g.width + c.x)
                /\ g.items[c.y * g.width + c.x + 1] = last.value
            /\ \A ub \in UbOutcomes :
                (encompasses(g, c, ub) = Ret(TRUE)) <=> IsSome(last.index)
    /\ last.op = "encompasses" =>
        /\ (last.ret = Ret(TRUE)) <=> Inside(grid[1], last.c)
        /\ (last.ret = Ret(TRUE)) <=> IsSome(get(grid[1], last.c))

C5_Witness ==
    /\ last.op = "get"
    /\ IsSome(last.ret)
    /\ last.c.x >= 1
    /\ last.c.y >= 1
    /\ last.ret[1] = last.c.y * grid[1].width + last.c.x

\* C6: for every width >= 1 and every index i, from_width_and_index(width, i)
\* is (i % width, (i - i % width) / width) and its as_index(width) is Some(i).
C6_IndexRoundTrip ==
    last.op = "from_width_and_index" =>
        /\ coordinate = Some([x |-> last.index % last.width,
                              y |-> (last.index - (last.index % last.width))
                                        \div last.width])
        /\ as_index(coordinate[1], last.width) = Some(last.index)

C6_Witness ==
    /\ last.op = "from_width_and_index"
    /\ coordinate[1].x >= 1
    /\ coordinate[1].y >= 2
    /\ as_index(coordinate[1], last.width) = Some(last.index)

\* The cells next to (x, y) on a width x height grid, counted by position.
ExpectedNeighbors(g, c) ==
    LET onColumnEdge == c.x = 0 \/ c.x = g.width - 1
        onRowEdge == c.y = 0 \/ c.y = Rows(g) - 1
    IN  IF onColumnEdge /\ onRowEdge THEN 3
        ELSE IF onColumnEdge \/ onRowEdge THEN 5
        ELSE 8

\* C7: on a grid with width >= 3 and height >= 3, neighbors(c) and
\* neighbor_coordinates(c) yield 8 entries for an interior cell, 5 for an edge
\* cell that is no corner, and 3 for a corner.
C7_NeighborCount ==
    (/\ last.op \in {"neighbors", "neighbor_coordinates"}
     /\ grid[1].width >= 3
     /\ Rows(grid[1]) >= 3
     /\ Inside(grid[1], last.c)) =>
        /\ ~last.ret.panicked
        /\ Len(last.ret.value) = ExpectedNeighbors(grid[1], last.c)

C7_Witness ==
    /\ last.op = "neighbors"
    /\ grid[1].width >= 3
    /\ Rows(grid[1]) >= 4
    /\ last.c = [x |-> 1, y |-> 2]
    /\ ~last.ret.panicked
    /\ Len(last.ret.value) = 8

\* The builder held only a height hint, or only a width hint, or both.
OnlyHeight == last.op = "build" /\ last.width = None /\ IsSome(last.height)
OnlyWidth == last.op = "build" /\ IsSome(last.width) /\ last.height = None
BothHints == last.op = "build" /\ IsSome(last.width) /\ IsSome(last.height)

\* The build gave a grid of this width and height.
Built(width, height) ==
    /\ last.result.tag = "Ok"
    /\ IsSome(grid)
    /\ grid[1] = last.result.grid
    /\ grid[1].items = last.items
    /\ Grid_width(grid[1]) = width
    /\ \A ub \in UbOutcomes : Grid_height(grid[1], ub) = Ret(height)

\* C8: with only a height hint, build fails with TooTall if height exceeds the
\* item count, else with SizeNotMultipleOfHeight exactly when the item count
\* is not a multiple of height, else gives a grid of width count / height
\* whose height() is the hint.
C8_BuildHeightOnly ==
    OnlyHeight =>
        LET n == Len(last.items)
            h == last.height[1]
        IN  IF h > n THEN last.result.tag = "TooTall"
            ELSE IF n % h # 0 THEN last.result.tag = "SizeNotMultipleOfHeight"
            ELSE Built(n \div h, h)

\* C9: with only a width hint, build fails with TooWide if width exceeds the
\* item count, else with SizeNotMultipleOfWidth if the count is not a multiple
\* of width, else gives a grid whose width() is the hint and whose height()
\* is count / width.
C9_BuildWidthOnly ==
    OnlyWidth =>
        LET n == Len(last.items)
            w == last.width[1]
        IN  IF w > n THEN last.result = Err("TooWide", last.items)
            ELSE IF n % w # 0
                 THEN last.result = Err("SizeNotMultipleOfWidth", last.items)
            ELSE Built(w, n \div w)

C9_Witness ==
    /\ OnlyWidth
    /\ last.result.tag = "Ok"
    /\ Len(last.items) > last.width[1]
    /\ Built(last.width[1], Len(last.items) \div last.width[1])

\* C10: with both hints, build succeeds if and only if width * height does not
\* overflow and equals the item count, giving a grid of that width and height;
\* otherwise it fails with SizeDoesNotMatch.
C10_BuildBoth ==
    BothHints =>
        LET n == Len(last.items)
            w == last.width[1]
            h == last.height[1]
        IN  /\ last.result.tag = "Ok" <=> (w * h <= MAX /\ w * h = n)
            /\ last.result.tag = "Ok" => Built(w, h)
            /\ last.result.tag # "Ok" => last.result = Err("SizeDoesNotMatch", last.items)

C10_Witness ==
    /\ BothHints
    /\ last.result.tag = "Ok"
    /\ last.height[1] > 1
    /\ Len(last.items) = last.width[1] * last.height[1]

\* The builder carries a width hint or a height hint.
Hinted(b) == IsSome(b.width) \/ IsSome(b.height)

\* C11: build fails with NeitherWidthNotHeightSet if and only if neither
\* width() nor height() was called since the builder was created, whatever
\* the item count.  Step by step: a new builder carries no hint, width() and
\* height() leave it with one, with_item and extend neither set nor clear one,
\* no call on a builder clears one, and build fails with
\* NeitherWidthNotHeightSet exactly when the builder it consumes carries none.
C11_NeitherIffNeverHinted ==
    [][/\ last'.op = "builder_new" => ~Hinted(builder'[1])
       /\ last'.op \in {"builder_width", "builder_height"} => Hinted(builder'[1])
       /\ last'.op \in {"with_item", "extend"} =>
            Hinted(builder'[1]) = Hinted(builder[1])
       /\ (IsSome(builder) /\ IsSome(builder') /\ Hinted(builder[1])) =>
            Hinted(builder'[1])
       /\ last'.op = "build" =>
            (last'.result.tag = "NeitherWidthNotHeightSet" <=> ~Hinted(builder[1]))
      ]_vars

C11_Witness ==
    /\ last.op = "build"
    /\ last.result.tag = "NeitherWidthNotHeightSet"
    /\ Len(last.items) = MaxLen
    /\ last.width = None
    /\ last.height = None

\* C12: a failed build loses nothing.  The builder's items are the seed
\* followed by every with_item / extend item in call order (width() and
\* height() leave them alone), and whenever build returns a BuildError, of any
\* variant, into_items gives exactly the items the builder held; seeding a
\* new builder with them and hinting a width that fits them succeeds.
C12_FailedBuildKeepsItems ==
    [][/\ last'.op = "builder_new" => builder'[1].items = last'.items
       /\ last'.op = "with_item" =>
            builder'[1].items = Append(builder[1].items, last'.item)
       /\ last'.op = "extend" =>
            builder'[1].items = builder[1].items \o last'.iter
       /\ last'.op \in {"builder_width", "builder_height"} =>
            builder'[1].items = builder[1].items
       /\ (last'.op = "build" /\ last'.result.tag # "Ok") =>
            LET items == into_items(last'.result)
            IN  /\ items = builder[1].items
                /\ grid' = None
                /\ items # <<>> =>
                     build(GridBuilder_width(GridBuilder_new(items), Len(items)))
                         = Ok([width |-> Len(items), items |-> items])
      ]_vars

C12_Witness ==
    /\ last.op = "build"
    /\ last.result.tag = "SizeNotMultipleOfWidth"
    /\ Len(into_items(last.result)) = MaxLen
    /\ into_items(last.result)[1] # into_items(last.result)[MaxLen]
    /\ into_items(last.result) = last.items

\* Result::ok: the grid of an Ok, nothing for any error.
ok(result) == IF result.tag = "Ok" THEN Some(result.grid) ELSE None

\* C13: for every item sequence, the empty one included, and every width,
\* GridBuilder::new(items).width(width).build().ok() equals
\* Grid::try_from((items, width)).ok(): both give equal grids or both fail.
C13_BuilderAgreesWithTryFrom ==
    OnlyWidth =>
        /\ ok(last.result) = try_from(last.items, last.width[1])
        /\ grid = try_from(last.items, last.width[1])

\* C14: on every grid and for every coordinate, components up to MAX included,
\* get, get_mut, encompasses, neighbor_coordinates, neighbors and
\* neighbors_mut return without panicking; for a coordinate off the grid get
\* and get_mut are absent and encompasses is false, and the neighbor calls
\* yield only cells of the grid.  Only grid[c] panics: exactly when get(c) is
\* absent, and otherwise it gives the cell get(c) gives.
C14_NoPanicOffGrid ==
    /\ last.op = "get" =>
        (~Inside(grid[1], last.c) => last.ret = None)
    /\ last.op = "get_mut" =>
        (~Inside(grid[1], last.c) => last.index = None)
    /\ last.op = "encompasses" =>
        /\ ~last.ret.panicked
        /\ ~Inside(grid[1], last.c) => last.ret = Ret(FALSE)
    /\ last.op \in {"neighbor_coordinates", "neighbors", "neighbors_mut"} =>
        /\ ~last.ret.panicked
        /\ Len(last.ret.value) <= 8
    /\ last.op = "neighbor_coordinates" =>
        \A i \in 1..Len(last.ret.value) : Inside(grid[1], last.ret.value[i])
    /\ last.op \in {"neighbors", "neighbors_mut"} =>
        \A i \in 1..Len(last.ret.value) : Inside(grid[1], last.ret.value[i][1])
    /\ last.op = "index" =>
        /\ last.ret.panicked <=> get(grid[1], last.c) = None
        /\ ~last.ret.panicked => Some(last.ret.value) = get(grid[1], last.c)

\* Decimal notation, read off the text: the digits, the value of a digit
\* string, and the digit strings with whitespace around them.
Digits == {"0", "1", "2", "3", "4", "5", "6", "7", "8", "9"}

DigitValue(ch) == CHOOSE d \in 0..9 : ch = <<"0", "1", "2", "3", "4", "5", "6", "7", "8", "9">>[d + 1]

RECURSIVE DecimalValue(_)
DecimalValue(s) ==
    IF s = <<>> THEN 0
    ELSE 10 * DecimalValue(SubSeq(s, 1, Len(s) - 1)) + DigitValue(s[Len(s)])

Blank(s) == \A i \in 1..Len(s) : s[i] \in {" ", "\t"}

\* The spans <<j, k>> of s that are a digit string with only whitespace
\* before and after; there is at most one.
NumeralSpans(s) ==
    {span \in (1..Len(s)) \X (1..Len(s)) :
        /\ span[1] <= span[2]
        /\ Blank(SubSeq(s, 1, span[1] - 1))
        /\ \A i \in span[1]..span[2] : s[i] \in Digits
        /\ Blank(SubSeq(s, span[2] + 1, Len(s)))}

\* s is a non-negative integer that fits usize, with whitespace around it.
IsNumber(s) ==
    \E span \in NumeralSpans(s) : DecimalValue(SubSeq(s, span[1], span[2])) <= MAX

NumberOf(s) ==
    LET span == CHOOSE span \in NumeralSpans(s) : TRUE
    IN  DecimalValue(SubSeq(s, span[1], span[2]))

Before(s, i) == SubSeq(s, 1, i - 1)
After(s, i) == SubSeq(s, i + 1, Len(s))

FirstSeparator(s) ==
    IF \E i \in 1..Len(s) : s[i] = "x" THEN "x"
    ELSE IF \E i \in 1..Len(s) : s[i] = "," THEN ","
    ELSE " "

SplitAt(s) ==
    CHOOSE i \in 1..Len(s) :
        /\ s[i] = FirstSeparator(s)
        /\ \A j \in 1..(i - 1) : s[j] # FirstSeparator(s)

\* C16: a text with none of 'x', ',', ' ' gives NotTwoNumbers.  Any other
\* text is split once at the first occurrence of its first separator in the
\* order 'x', ',', ' ': an x token that is no number gives InvalidXValue (also
\* when the y token is none either), a number for x with a y token that is
\* none gives InvalidYValue, and only two numbers give a Coordinate.
C16_ParseErrorClass ==
    last.op = "from_str" =>
        IF \A i \in 1..Len(last.text) : last.text[i] \notin {"x", ",", " "}
        THEN last.result = NotTwoNumbers
        ELSE LET xs == Before(last.text, SplitAt(last.text))
                 ys == After(last.text, SplitAt(last.text))
             IN  /\ ~IsNumber(xs) => last.result.tag = "InvalidXValue"
                 /\ (IsNumber(xs) /\ ~IsNumber(ys)) =>
                        last.result.tag = "InvalidYValue"
                 /\ (IsNumber(xs) /\ IsNumber(ys)) =>
                        last.result = ParsedCoordinate(
                            Coordinate_new(NumberOf(xs), NumberOf(ys)))
                 /\ last.result.tag \in {"Ok", "InvalidXValue", "InvalidYValue"}

C16_Witness ==
    /\ last.op = "from_str"
    /\ last.result.tag = "InvalidXValue"
    /\ FirstSeparator(last.text) = "x"
    /\ \E i \in 1..Len(last.text) : last.text[i] = " "
    /\ ~IsNumber(Before(last.text, SplitAt(last.text)))
    /\ ~IsNumber(After(last.text, SplitAt(last.text)))

\* C17: the Grid of lib.rs accepts a zero dimension.  Grid::new(0, h, init)
\* gives a grid whose width() is 0, Grid::new(w, 0, init) with w >= 1 gives a
\* grid whose height() is 0, and in both cases the grid holds no items.
C17_LegacyZeroDimension ==
    (last.op = "legacy_new" /\ (last.width = 0 \/ last.height = 0)) =>
        /\ ~last.panicked
        /\ IsSome(grid)
        /\ grid[1].items = <<>>
        /\ last.calls = 0
        /\ last.width = 0 => Legacy_width(grid[1]) = 0
        /\ (last.width >= 1 /\ last.height = 0) => Legacy_height(grid[1]) = Ret(0)

C17_Witness ==
    /\ last.op = "legacy_new"
    /\ last.width = 0
    /\ last.height = 3
    /\ IsSome(grid)
    /\ Legacy_width(grid[1]) = 0
    /\ grid[1].items = <<>>

\* C18: Grid::try_new and Grid::new with a product that does not overflow call
\* the initializer exactly width * height times, and the value of call k
\* (from 0) is the item at linear index k, the cell (k % width, k / width).
C18_InitializerOrder ==
    (last.op \in {"new", "try_new"} /\ last.width * last.height <= MAX) =>
        /\ last.calls = last.width * last.height
        /\ IsSome(grid)
        /\ Len(grid[1].items) = last.calls
        /\ \A k \in 0..(last.calls - 1) :
            /\ grid[1].items[k + 1] = initializer(last.init, k)
            /\ get(grid[1], Coordinate_new(k % last.width, k \div last.width))
                   = Some(initializer(last.init, k))

C18_Witness ==
    /\ last.op = "try_new"
    /\ last.init = "counter"
    /\ last.width = 3
    /\ last.height = 2
    /\ last.calls = 6
    /\ grid[1].items = <<0, 1, 2, 3, 4, 5>>
    /\ get(grid[1], Coordinate_new(1, 1)) = Some(4)

\* C19: for every coordinate (x, y) and width >= 1, as_index(width) is
\* Some(y * width + x) if and only if x < width and y * width + x <= MAX, and
\* no index otherwise: never a wrapped value, never a panic.
C19_AsIndexChecked ==
    last.op = "as_index" =>
        LET c == coordinate[1]
            exact == c.y * last.width + c.x
        IN  /\ IsSome(last.ret) <=> (c.x < last.width /\ exact <= MAX)
            /\ IsSome(last.ret) => last.ret = Some(exact)
            /\ last.ret \in {None} \cup {Some(i) : i \in 0..MAX}

C19_Witness ==
    /\ last.op = "as_index"
    /\ coordinate[1].x < last.width
    /\ coordinate[1].y * last.width <= MAX
    /\ coordinate[1].y * last.width + coordinate[1].x > MAX
    /\ last.ret = None

\* The eight directions in reading order: up-left, up, up-right, left, right,
\* down-left, down, down-right.
ReadingOrder ==
    << <<-1, -1>>, <<0, -1>>, <<1, -1>>, <<-1, 0>>,
       <<1, 0>>, <<-1, 1>>, <<0, 1>>, <<1, 1>> >>

InRange(n) == 0 <= n /\ n <= MAX

\* C20: Coordinate::neighbors of (x, y) is the sequence of (x + dx, y + dy)
\* over the eight directions in reading order, keeping exactly those with both
\* components in 0..MAX: never (x, y) itself, never a wrapped value, at most 8
\* entries, and 3 entries at (0, 0) and at (MAX, MAX).
C20_CoordinateNeighbors ==
    last.op = "coordinate_neighbors" =>
        LET c == coordinate[1]
            kept == SelectSeq(ReadingOrder,
                              LAMBDA d : InRange(c.x + d[1]) /\ InRange(c.y + d[2]))
        IN  /\ last.ret = [i \in 1..Len(kept) |->
                              [x |-> c.x + kept[i][1], y |-> c.y + kept[i][2]]]
            /\ Len(last.ret) <= 8
            /\ \A i \in 1..Len(last.ret) :
                /\ last.ret[i] # c
                /\ InRange(last.ret[i].x) /\ InRange(last.ret[i].y)
            /\ (c \in {[x |-> 0, y |-> 0], [x |-> MAX, y |-> MAX]}) =>
                   Len(last.ret) = 3

C20_Witness ==
    /\ last.op = "coordinate_neighbors"
    /\ coordinate = Some([x |-> MAX, y |-> MAX])
    /\ last.ret = << [x |-> MAX - 1, y |-> MAX - 1], [x |-> MAX, y |-> MAX - 1],
                     [x |-> MAX - 1, y |-> MAX] >>

\* C21: hints and items of a builder are independent.  width() sets the width
\* hint to its argument, overwriting an earlier one, and leaves the items and
\* the height hint alone; height() likewise; with_item and extend leave both
\* hints alone; calls of different kinds commute and a repeated hint call
\* acts as the last one alone; and build returns what the final items, the
\* last width and the last height determine.
C21_HintsAndItemsIndependent ==
    [][/\ last'.op = "builder_width" =>
            /\ builder'[1].width = Some(last'.width)
            /\ builder'[1].height = builder[1].height
            /\ builder'[1].items = builder[1].items
       /\ last'.op = "builder_height" =>
            /\ builder'[1].height = Some(last'.height)
            /\ builder'[1].width = builder[1].width
            /\ builder'[1].items = builder[1].items
       /\ last'.op \in {"with_item", "extend"} =>
            /\ builder'[1].width = builder[1].width
            /\ builder'[1].height = builder[1].height
       /\ IsSome(builder') =>
            LET b == builder'[1] IN
            \A w \in Dims, h \in Dims, item \in Values :
                /\ GridBuilder_height(GridBuilder_width(b, w), h)
                       = GridBuilder_width(GridBuilder_height(b, h), w)
                /\ with_item(GridBuilder_width(b, w), item)
                       = GridBuilder_width(with_item(b, item), w)
                /\ extend(GridBuilder_height(b, h), <<item>>)
                       = GridBuilder_height(extend(b, <<item>>), h)
                /\ GridBuilder_width(GridBuilder_width(b, h), w)
                       = GridBuilder_width(b, w)
                /\ GridBuilder_height(GridBuilder_height(b, w), h)
                       = GridBuilder_height(b, h)
       /\ last'.op = "build" =>
            /\ last'.items = builder[1].items
            /\ last'.width = builder[1].width
            /\ last'.height = builder[1].height
            /\ last'.result = build([items |-> last'.items, width |-> last'.width,
                                     height |-> last'.height])
      ]_vars

C21_Witness ==
    /\ last.op = "builder_width"
    /\ IsSome(builder)
    /\ builder[1].width = Some(last.width)
    /\ IsSome(builder[1].height)
    /\ builder[1].height # builder[1].width
    /\ Len(builder[1].items) = MaxLen

\* The rows one after the other.
RECURSIVE Flatten(_)
Flatten(seqs) == IF seqs = <<>> THEN <<>> ELSE Head(seqs) \o Flatten(Tail(seqs))

\* C22: rows() yields exactly height() rows of exactly width() elements each;
\* the element at position x of row y is the buffer element at index
\* y * width + x, and the rows one after the other are the sequence of iter().
C22_RowsPartitionItems ==
    last.op = "rows" =>
        /\ ~last.ret.panicked
        /\ \A ub \in UbOutcomes : Grid_height(grid[1], ub) = Ret(Len(last.ret.value))
        /\ \A y \in 1..Len(last.ret.value) :
            /\ Len(last.ret.value[y]) = Grid_width(grid[1])
            /\ \A x \in 1..Len(last.ret.value[y]) :
                last.ret.value[y][x] = grid[1].items[(y - 1) * grid[1].width + x]
        /\ Flatten(last.ret.value) = Grid_iter(grid[1])

\* The coordinates on the grid.
InsideCoordinates(g) == {[x |-> x, y |-> y] : x \in 0..(g.width - 1), y \in 0..(Rows(g) - 1)}

\* The coordinate of buffer index i (from 0) on a grid of this width.
CoordinateOf(width, i) == [x |-> i % width, y |-> i \div width]

\* C23: enumerate() and enumerate_mut() yield exactly size() pairs; pair i
\* (from 0) is the coordinate of index i with buffer element i; every yielded
\* coordinate is on the grid, every coordinate on the grid is yielded exactly
\* once, and get(c) is the element paired with c.
C23_EnumeratePairs ==
    /\ last.op = "enumerate" =>
        LET g == grid[1]
            pairs == last.ret
        IN  /\ \A ub \in UbOutcomes : Grid_size(g, ub) = Ret(Len(pairs))
            /\ \A i \in 1..Len(pairs) :
                /\ pairs[i] = <<CoordinateOf(g.width, i - 1), g.items[i]>>
                /\ pairs[i][1] = from_width_and_index(g.width, i - 1)
                /\ Inside(g, pairs[i][1])
                /\ get(g, pairs[i][1]) = Some(pairs[i][2])
            /\ \A c \in InsideCoordinates(g) :
                Cardinality({i \in 1..Len(pairs) : pairs[i][1] = c}) = 1
    /\ last.op = "enumerate_mut" =>
        LET g == grid[1]
            pairs == enumerate_mut(g)
        IN  /\ \A ub \in UbOutcomes : Grid_size(g, ub) = Ret(Len(pairs))
            /\ \A i \in 1..Len(pairs) :
                /\ pairs[i] = <<CoordinateOf(g.width, i - 1), i - 1>>
                /\ Inside(g, pairs[i][1])
                /\ get_mut(g, pairs[i][1]) = Some(pairs[i][2])
            /\ \A c \in InsideCoordinates(g) :
                Cardinality({i \in 1..Len(pairs) : pairs[i][1] = c}) = 1
            /\ last.c = CoordinateOf(g.width, last.index)
            /\ get(g, last.c) = Some(last.value)

\* n is next to c: another coordinate at most one step away on each axis.
Adjacent(c, n) ==
    /\ n # c
    /\ n.x - c.x \in {-1, 0, 1}
    /\ n.y - c.y \in {-1, 0, 1}

\* The coordinates with components in 0..MAX.
AllCoordinates == [x : 0..MAX, y : 0..MAX]

\* The linear index of a coordinate on the grid.
LinearIndex(g, c) == c.y * g.width + c.x

Ascending(g, cs) ==
    \A i, j \in 1..Len(cs) : i < j => LinearIndex(g, cs[i]) < LinearIndex(g, cs[j])

\* C24: neighbor_coordinates(c) contains exactly the coordinates n with
\* encompasses(n), n # c and |n.x - c.x| <= 1, |n.y - c.y| <= 1, also for a c
\* off the grid; neighbors(c) and neighbors_mut(c) yield exactly one pair
\* (n, cell) for each of them, the cell being the one get(n) gives; and all
\* list the neighbors in ascending linear index.
C24_NeighborsPairs ==
    /\ last.op = "neighbor_coordinates" =>
        /\ ~last.ret.panicked
        /\ \A n \in AllCoordinates :
            (\E i \in 1..Len(last.ret.value) : last.ret.value[i] = n) <=>
                (/\ \A ub \in UbOutcomes : encompasses(grid[1], n, ub) = Ret(TRUE)
                 /\ Adjacent(last.c, n))
        /\ Ascending(grid[1], last.ret.value)
    /\ last.op = "neighbors" =>
        /\ ~last.ret.panicked
        /\ \A ub \in UbOutcomes :
            LET ns == neighbor_coordinates(grid[1], last.c, ub)
            IN  /\ ~ns.panicked
                /\ last.ret.value =
                       [i \in 1..Len(ns.value) |->
                           <<ns.value[i], grid[1].items[LinearIndex(grid[1], ns.value[i]) + 1]>>]
        /\ \A i \in 1..Len(last.ret.value) :
            get(grid[1], last.ret.value[i][1]) = Some(last.ret.value[i][2])
        /\ Ascending(grid[1], [i \in 1..Len(last.ret.value) |-> last.ret.value[i][1]])
    /\ last.op = "neighbors_mut" =>
        /\ ~last.ret.panicked
        /\ \A ub \in UbOutcomes :
            LET ns == neighbor_coordinates(grid[1], last.c, ub)
            IN  /\ ~ns.panicked
                /\ last.ret.value =
                       [i \in 1..Len(ns.value) |->
                           <<ns.value[i], LinearIndex(grid[1], ns.value[i])>>]
        /\ \A i \in 1..Len(last.ret.value) :
            /\ get_mut(grid[1], last.ret.value[i][1]) = Some(last.ret.value[i][2])
            /\ get(grid[1], last.ret.value[i][1]) = Some(last.value)
        /\ Ascending(grid[1], [i \in 1..Len(last.ret.value) |-> last.ret.value[i][1]])

\* C25: Grid::from_vec and Grid::from_iter of lib.rs with width 0 return, for
\* every sequence, the empty one included, an error value that is not the one
\* for a length that is no multiple of the width, and never panic.
C25_LegacyZeroWidthIsError ==
    (last.op \in {"legacy_from_vec", "legacy_from_iter"} /\ last.width = 0) =>
        /\ ~last.ret.panicked
        /\ last.ret.value.tag \notin {"Ok", "iterator size must be a multiple of width"}
        /\ grid = None

\* The calls that take &self.
ReadOnly == {"get", "iter", "enumerate", "rows", "neighbors", "encompasses", "contains"}

\* C26: a write through get_mut(c) for c on the grid changes only the buffer
\* element at index c.y * width + c.x: every other cell, width(), height()
\* and size() stay as they were; get_mut(c) for c off the grid is absent and
\* changes nothing; get, iter, enumerate, rows, neighbors, encompasses and
\* contains leave the grid unchanged, and what iter() and rows() yield is
\* determined by the grid, so repeating them on an unmodified grid gives
\* the same sequences.
C26_MutationFrame ==
    [][/\ last'.op = "get_mut" =>
            LET g == grid[1]
                after == grid'[1]
                c == last'.c
            IN  IF Inside(g, c)
                THEN /\ last'.index = Some(LinearIndex(g, c))
                     /\ after.items[LinearIndex(g, c) + 1] = last'.value
                     /\ Len(after.items) = Len(g.items)
                     /\ \A i \in 1..Len(g.items) :
                            i # LinearIndex(g, c) + 1 => after.items[i] = g.items[i]
                     /\ Grid_width(after) = Grid_width(g)
                     /\ \A ub \in UbOutcomes :
                            /\ Grid_height(after, ub) = Grid_height(g, ub)
                            /\ Grid_size(after, ub) = Grid_size(g, ub)
                ELSE /\ last'.index = None
                     /\ grid' = grid
       /\ last'.op \in ReadOnly => grid' = grid
       /\ last'.op = "iter" => last'.ret = grid[1].items
       /\ (last'.op = "rows" /\ ~last'.ret.panicked) =>
            /\ Flatten(last'.ret.value) = grid[1].items
            /\ \A y \in 1..Len(last'.ret.value) :
                   Len(last'.ret.value[y]) = grid[1].width
       /\ (last.op = "iter" /\ last'.op \in ReadOnly \ {"iter"}) =>
            Grid_iter(grid'[1]) = last.ret
      ]_vars

C26_Witness ==
    /\ last.op = "get_mut"
    /\ IsSome(last.index)
    /\ last.c.x >= 1
    /\ last.c.y >= 1
    /\ grid[1].items[last.index[1] + 1] = last.value
    /\ \A i \in 1..Len(grid[1].items) :
           i # last.index[1] + 1 => grid[1].items[i] # last.value

\* c occurs in the sequence cs.
Occurs(c, cs) == \E i \in 1..Len(cs) : cs[i] = c

\* C27: for two coordinates a and b on the grid, b is in
\* neighbor_coordinates(a) if and only if a is in neighbor_coordinates(b), and
\* no coordinate, on the grid or off it, is among its own neighbors.
C27_NeighborhoodSymmetry ==
    last.op = "neighbor_coordinates" =>
        /\ ~(~last.ret.panicked /\ Occurs(last.c, last.ret.value))
        /\ Inside(grid[1], last.c) =>
            /\ ~last.ret.panicked
            /\ \A b \in InsideCoordinates(grid[1]), ub \in UbOutcomes :
                LET back == neighbor_coordinates(grid[1], b, ub)
                IN  /\ ~back.panicked
                    /\ Occurs(b, last.ret.value) <=> Occurs(last.c, back.value)

C27_Witness ==
    /\ last.op = "neighbor_coordinates"
    /\ Inside(grid[1], last.c)
    /\ ~last.ret.panicked
    /\ Len(last.ret.value) = 5
    /\ Occurs([x |-> 0, y |-> 2], last.ret.value)
    /\ \A ub \in UbOutcomes :
           Occurs(last.c, neighbor_coordinates(grid[1], [x |-> 0, y |-> 2], ub).value)

====
